---- MODULE Spec2Model ----
(***************************************************************************)
(* BaseDetectionModel (paddle3d/models/base/base_detection.py): the        *)
(* export-mode flag of a tree of layers, the forward dispatch, the         *)
(* exporting() scope, export(), and the input/output descriptors.          *)
(*                                                                         *)
(* Nodes 1..NumModels are BaseDetectionModel instances; node NumModels+1   *)
(* is a plain nn.Layer (a backbone, a head), which has no in_export_mode   *)
(* attribute until set_export_mode reaches it.  Python strings are         *)
(* sequences of one-character strings; Optional[str] is a record.          *)
(***************************************************************************)
EXTENDS Integers, Sequences, FiniteSets, TLC

\* ---------------------------------------------------------------- bounds
NumModels == 2
MaxDepth == 2

Models == 1..NumModels
PlainLayer == NumModels + 1
Nodes == Models \cup {PlainLayer}

\* ------------------------------------------------------- python values
None == [some |-> FALSE, val |-> <<>>]
Some(s) == [some |-> TRUE, val |-> s]
\* the truth value of an Optional[str]: None and "" are both false
Truthy(o) == o.some /\ o.val # <<>>

UpperChars == <<"A","B","C","D","E","F","G","H","I","J","K","L","M",
                "N","O","P","Q","R","S","T","U","V","W","X","Y","Z">>
LowerChars == <<"a","b","c","d","e","f","g","h","i","j","k","l","m",
                "n","o","p","q","r","s","t","u","v","w","x","y","z">>
\* str.lower()
lower(s) ==
    [i \in 1..Len(s) |->
        IF \E k \in 1..Len(UpperChars) : UpperChars[k] = s[i]
        THEN LowerChars[CHOOSE k \in 1..Len(UpperChars) : UpperChars[k] = s[i]]
        ELSE s[i]]

\* os.path.join(a, b) on a POSIX system
os_path_join(a, b) ==
    IF b # <<>> /\ b[1] = "/" THEN b
    ELSE IF a = <<>> \/ a[Len(a)] = "/" THEN a \o b
    ELSE a \o <<"/">> \o b

\* a one-element python list [x]
PyList(x) == [list_of |-> x]

\* ------------------------------------------------- concrete subclasses
\* The subclasses supply __class__.__name__ and the abstract property
\* inputs (the names of a model's inputs are distinct); two of them stand
\* for all.
Classes ==
    { [name   |-> <<"S","M","O","K","E">>,
       inputs |-> << [name |-> "image", dtype |-> "float32",
                      shape |-> <<-1, 3, 224, 224>>] >>],
      [name   |-> <<"C","a","D","D","N">>,
       inputs |-> << [name |-> "data", dtype |-> "float32",
                      shape |-> <<-1, 4>>],
                     [name |-> "coords", dtype |-> "int32",
                      shape |-> <<-1, 3>>] >>] }
DefaultClass == CHOOSE c \in Classes : Len(c.inputs) = 1

\* arguments of export(save_dir, name) and of forward(samples)
SaveDirs == { <<"o","u","t">>, <<"/","t","m","p","/">> }
Names == { None, Some(<<>>), Some(<<"m">>), Some(<<"/","a">>) }
DefaultDir == <<"o","u","t">>
Samples == {"batch_a", "batch_b"}

VARIABLES
    sub_layers,         \* nn.Layer._sub_layers: the children of each node
    in_export_mode,     \* the attribute, on the nodes that carry it
    box_with_velocity,  \* per model, fixed at construction
    cls,                \* per model, its concrete subclass
    stack,              \* the active exporting() scopes, innermost last
    usage,              \* history: how the flag has been written so far
    last                \* history: the operation that just completed

vars == <<sub_layers, in_export_mode, box_with_velocity, cls, stack, usage, last>>

\* --------------------------------------------------------------- state
RECURSIVE Descendants(_, _)
Descendants(n, fuel) ==
    IF fuel = 0 THEN {n}
    ELSE {n} \cup UNION { Descendants(c, fuel - 1) : c \in sub_layers[n] }

\* self.sublayers(include_self=True)
sublayers(m) == Descendants(m, Cardinality(Nodes))

IsRoot(n) == \A p \in Nodes : n \notin sub_layers[p]

Carriers == DOMAIN in_export_mode
AllExport(S) == \A n \in S : n \in Carriers /\ in_export_mode[n]
NoneExport(S) == \A n \in S : n \in Carriers /\ ~in_export_mode[n]

\* BaseDetectionModel.__init__
InitModel ==
    /\ sub_layers = [n \in Nodes |-> {}]
    /\ in_export_mode = [m \in Models |-> FALSE]
    /\ stack = <<>>
    /\ usage = "fresh"
    /\ last = [op |-> "init"]

Init ==
    /\ InitModel
    /\ box_with_velocity = [m \in Models |-> FALSE]
    /\ cls = [m \in Models |-> DefaultClass]

InitIO ==
    /\ InitModel
    /\ box_with_velocity \in [Models -> BOOLEAN]
    /\ cls \in [Models -> Classes]

\* ------------------------------------------------------ pure functions
\* outputs with the two box dimensions exchanged
outputs_swapped(bwv) ==
    LET boxdim == IF bwv THEN 7 ELSE 9
    IN  << [name |-> "box3d", dtype |-> "float32", shape |-> <<-1, boxdim>>],
           [name |-> "label", dtype |-> "int32", shape |-> <<-1>>],
           [name |-> "confidence", dtype |-> "float32", shape |-> <<-1>>] >>

\* BaseDetectionModel.outputs
outputs(bwv) ==
    LET boxdim == IF ~bwv THEN 7 ELSE 9
        box3ds == [name |-> "box3d", dtype |-> "float32", shape |-> <<-1, boxdim>>]
        labels == [name |-> "label", dtype |-> "int32", shape |-> <<-1>>]
        confidences == [name |-> "confidence", dtype |-> "float32", shape |-> <<-1>>]
    IN  <<box3ds, labels, confidences>>

\* paddle.static.InputSpec(**_input)
InputSpec(i) == [shape |-> i.shape, dtype |-> i.dtype, name |-> i.name]

\* BaseDetectionModel.input_spec: a dict keyed by name (a later entry of the
\* same name replaces an earlier one), wrapped in a list
input_spec(inputs) ==
    LET keys == { inputs[i].name : i \in 1..Len(inputs) }
        at(k) == CHOOSE i \in 1..Len(inputs) :
                    /\ inputs[i].name = k
                    /\ \A j \in 1..Len(inputs) : inputs[j].name = k => j <= i
        data == [k \in keys |-> InputSpec(inputs[at(k)])]
    IN  PyList(data)

\* save_name without the lower()
save_name_as_is(c) == c.name

\* BaseDetectionModel.save_name
save_name(c) == lower(c.name)

\* export: name = name or self.save_name
export_name(name, c) == IF Truthy(name) THEN name.val ELSE save_name(c)

\* what a subclass's export_forward, train_forward or test_forward returns
Computed(fn, samples) == <<fn, samples>>

\* a forward that tests self.training before self.in_export_mode
forward_training_first(in_export, training, samples) ==
    IF training
    THEN [calls |-> <<"train_forward">>, ret |-> Computed("train_forward", samples)]
    ELSE IF in_export
    THEN [calls |-> <<"export_forward">>, ret |-> Computed("export_forward", samples)]
    ELSE [calls |-> <<"test_forward">>, ret |-> Computed("test_forward", samples)]

\* BaseDetectionModel.forward: the computations it calls, and what it returns
forward(in_export, training, samples) ==
    IF in_export
    THEN [calls |-> <<"export_forward">>, ret |-> Computed("export_forward", samples)]
    ELSE IF training
    THEN [calls |-> <<"train_forward">>, ret |-> Computed("train_forward", samples)]
    ELSE [calls |-> <<"test_forward">>, ret |-> Computed("test_forward", samples)]

\* a loop over self.sublayers(), whose include_self defaults to False
set_export_mode_children_only(m, mode) ==
    [n \in Carriers \cup (sublayers(m) \ {m}) |->
        IF n \in sublayers(m) \ {m} THEN mode ELSE in_export_mode[n]]

\* an assignment to self alone, with no loop
set_export_mode_self_only(m, mode) ==
    [n \in Carriers \cup {m} |-> IF n = m THEN mode ELSE in_export_mode[n]]

\* BaseDetectionModel.set_export_mode: the attribute after the loop
set_export_mode(m, mode) ==
    [n \in Carriers \cup sublayers(m) |->
        IF n \in sublayers(m) THEN mode ELSE in_export_mode[n]]

\* -------------------------------------------------------------- scopes
Top == stack[Len(stack)]
Pop == SubSeq(stack, 1, Len(stack) - 1)
\* user code runs at top level or in the body of a with-exporting block;
\* inside export() only the exporter runs
UserCode == IF stack = <<>> THEN TRUE ELSE Top.kind = "exporting"
\* something in the body of the innermost scope wrote the flag or the tree
Disturbed ==
    IF stack = <<>> THEN stack
    ELSE [stack EXCEPT ![Len(stack)].clean = FALSE]
FlagWrittenOn(m) ==
    IF ~IsRoot(m) THEN "mixed"
    ELSE IF usage = "fresh" THEN "rooted" ELSE usage

\* ------------------------------------------------------------- actions
\* model.forward(samples); self.training belongs to the layer runtime
Forward(m, samples, training) ==
    /\ last' = [op |-> "forward", m |-> m, training |-> training,
                samples |-> samples, in_export |-> in_export_mode[m],
                result |-> forward(in_export_mode[m], training, samples)]
    /\ UNCHANGED <<sub_layers, in_export_mode, box_with_velocity, cls, stack, usage>>

\* model.set_export_mode(mode), called directly
SetExportMode(m, mode) ==
    /\ UserCode
    /\ in_export_mode' = set_export_mode(m, mode)
    /\ stack' = Disturbed
    /\ usage' = FlagWrittenOn(m)
    /\ last' = [op |-> "set_export_mode", m |-> m, mode |-> mode,
                after_true |-> IF last.op = "set_export_mode"
                               THEN last.m = m /\ last.mode ELSE FALSE]
    /\ UNCHANGED <<sub_layers, box_with_velocity, cls>>

\* an exporting() that yields without setting the flag
ExportingEnterNoSet(m) ==
    /\ UserCode
    /\ Len(stack) < MaxDepth
    /\ stack' = Append(Disturbed, [kind |-> "exporting", m |-> m, clean |-> TRUE])
    /\ last' = [op |-> "exporting", m |-> m, event |-> "entered"]
    /\ UNCHANGED <<sub_layers, in_export_mode, box_with_velocity, cls, usage>>

\* with model.exporting(): up to the yield
ExportingEnter(m) ==
    /\ UserCode
    /\ Len(stack) < MaxDepth
    /\ in_export_mode' = set_export_mode(m, TRUE)
    /\ stack' = Append(Disturbed, [kind |-> "exporting", m |-> m, clean |-> TRUE])
    /\ usage' = FlagWrittenOn(m)
    /\ last' = [op |-> "exporting", m |-> m, event |-> "entered"]
    /\ UNCHANGED <<sub_layers, box_with_velocity, cls>>

\* the body ends normally: the generator resumes after the yield
ExportingExit ==
    /\ stack # <<>>
    /\ Top.kind = "exporting"
    /\ in_export_mode' = set_export_mode(Top.m, FALSE)
    /\ stack' = Pop
    /\ usage' = FlagWrittenOn(Top.m)
    /\ last' = [op |-> "exporting", m |-> Top.m, event |-> "exited"]
    /\ UNCHANGED <<sub_layers, box_with_velocity, cls>>

\* the body raises: the exception is thrown into the generator at the yield,
\* which has no try/finally, and leaves it there
ExportingRaise ==
    /\ stack # <<>>
    /\ Top.kind = "exporting"
    /\ stack' = Pop
    /\ last' = [op |-> "exporting", m |-> Top.m, event |-> "raised"]
    /\ UNCHANGED <<sub_layers, in_export_mode, box_with_velocity, cls, usage>>

\* model.export(save_dir, name): the name, the scope's entry
Export(m, save_dir, name) ==
    /\ UserCode
    /\ Len(stack) < MaxDepth
    /\ in_export_mode' = set_export_mode(m, TRUE)
    /\ stack' = Append(Disturbed,
                  [kind |-> "export", m |-> m, pc |-> "to_static",
                   save_dir |-> save_dir, name |-> export_name(name, cls[m]),
                   given |-> name, clean |-> TRUE,
                   log |-> << [ev |-> "set_export_mode", mode |-> TRUE] >>])
    /\ usage' = FlagWrittenOn(m)
    /\ last' = [op |-> "export", m |-> m, event |-> "entered"]
    /\ UNCHANGED <<sub_layers, box_with_velocity, cls>>

\* paddle.jit.to_static(self, input_spec=self.input_spec) returns
ToStatic ==
    /\ stack # <<>>
    /\ Top.kind = "export" /\ Top.pc = "to_static"
    /\ stack' = [stack EXCEPT ![Len(stack)] =
                  [@ EXCEPT !.pc = "save",
                            !.log = Append(@,
                               [ev |-> "to_static",
                                input_spec |-> input_spec(cls[Top.m].inputs),
                                exporting |-> AllExport(sublayers(Top.m))])]]
    /\ last' = [op |-> "export", m |-> Top.m, event |-> "traced"]
    /\ UNCHANGED <<sub_layers, in_export_mode, box_with_velocity, cls, usage>>

\* an export whose scope is left without the reset
JitSaveNoReset ==
    /\ stack # <<>>
    /\ Top.kind = "export" /\ Top.pc = "save"
    /\ stack' = Pop
    /\ last' = [op |-> "export", m |-> Top.m, event |-> "returned",
                save_dir |-> Top.save_dir, given |-> Top.given,
                log |-> Top.log \o
                   << [ev |-> "save",
                       path |-> os_path_join(Top.save_dir, Top.name),
                       input_spec |-> PyList(input_spec(cls[Top.m].inputs)),
                       exporting |-> AllExport(sublayers(Top.m))],
                      [ev |-> "set_export_mode", mode |-> FALSE] >>]
    /\ UNCHANGED <<sub_layers, in_export_mode, box_with_velocity, cls, usage>>

\* paddle.jit.save(self, path, input_spec=[self.input_spec]) returns, and the
\* with block ends
JitSave ==
    /\ stack # <<>>
    /\ Top.kind = "export" /\ Top.pc = "save"
    /\ in_export_mode' = set_export_mode(Top.m, FALSE)
    /\ stack' = Pop
    /\ usage' = FlagWrittenOn(Top.m)
    /\ last' = [op |-> "export", m |-> Top.m, event |-> "returned",
                save_dir |-> Top.save_dir, given |-> Top.given,
                log |-> Top.log \o
                   << [ev |-> "save",
                       path |-> os_path_join(Top.save_dir, Top.name),
                       input_spec |-> PyList(input_spec(cls[Top.m].inputs)),
                       exporting |-> AllExport(sublayers(Top.m))],
                      [ev |-> "set_export_mode", mode |-> FALSE] >>]
    /\ UNCHANGED <<sub_layers, box_with_velocity, cls>>

\* the exporter raises in to_static or in save: export() is left by the
\* exception, through the scope
ExporterRaise ==
    /\ stack # <<>>
    /\ Top.kind = "export"
    /\ stack' = Pop
    /\ last' = [op |-> "export", m |-> Top.m, event |-> "raised", at |-> Top.pc]
    /\ UNCHANGED <<sub_layers, in_export_mode, box_with_velocity, cls, usage>>

\* parent.add_sublayer(child): a module constructed later joins the tree
Attach(p, c) ==
    /\ UserCode
    /\ p < c
    /\ IsRoot(c)
    /\ sub_layers' = [sub_layers EXCEPT ![p] = @ \cup {c}]
    /\ stack' = Disturbed
    /\ usage' = IF usage = "fresh" THEN "fresh" ELSE "mixed"
    /\ last' = [op |-> "attach", m |-> p, child |-> c]
    /\ UNCHANGED <<in_export_mode, box_with_velocity, cls>>

\* model.outputs
Outputs(m) ==
    /\ last' = [op |-> "outputs", m |-> m, result |-> outputs(box_with_velocity[m])]
    /\ UNCHANGED <<sub_layers, in_export_mode, box_with_velocity, cls, stack, usage>>

\* model.input_spec
ReadInputSpec(m) ==
    /\ last' = [op |-> "input_spec", m |-> m, result |-> input_spec(cls[m].inputs),
                before |-> <<sub_layers, in_export_mode, box_with_velocity, cls, stack>>]
    /\ UNCHANGED <<sub_layers, in_export_mode, box_with_velocity, cls, stack, usage>>

Next ==
    \/ \E m \in Models, s \in Samples, t \in BOOLEAN : Forward(m, s, t)
    \/ \E m \in Models, mode \in BOOLEAN : SetExportMode(m, mode)
    \/ \E m \in Models : ExportingEnter(m)
    \/ ExportingExit
    \/ ExportingRaise
    \/ \E m \in Models : Export(m, DefaultDir, None)
    \/ ToStatic
    \/ JitSave
    \/ ExporterRaise
    \/ \E p \in Models, c \in Nodes : Attach(p, c)

Spec == Init /\ [][Next]_vars

NextIO ==
    \/ \E m \in Models : Outputs(m)
    \/ \E m \in Models : ReadInputSpec(m)
    \/ \E m \in Models, s \in Samples, t \in BOOLEAN : Forward(m, s, t)
    \/ \E m \in Models, d \in SaveDirs, n \in Names : Export(m, d, n)
    \/ ToStatic
    \/ JitSave
    \/ ExporterRaise

SpecIO == InitIO /\ [][NextIO]_vars

\* -------------------------------------------------------------- claims
Forwarded == last.op = "forward"
Returned == last.op = "export" /\ last.event = "returned"
Raised == last.op \in {"export", "exporting"} /\ last.event = "raised"
EventNames(log) == [i \in 1..Len(log) |-> log[i].ev]
\* the flag agrees on the nodes of S that carry it
Uniform(S) ==
    \A a \in S \cap Carriers, b \in S \cap Carriers :
        in_export_mode[a] = in_export_mode[b]
Covered == UNION { sublayers(stack[i].m) : i \in 1..Len(stack) }

\* C1: a forward call runs exactly one of the three computations, chosen by
\* (in_export_mode, training): export_forward whenever the flag is set, else
\* train_forward when training, else test_forward; and returns its result.
C1_ForwardDispatch ==
    Forwarded =>
        LET fn == IF last.in_export THEN "export_forward"
                  ELSE IF last.training THEN "train_forward"
                  ELSE "test_forward"
        IN  /\ last.in_export = in_export_mode[last.m]
            /\ last.result.calls = <<fn>>
            /\ last.result.ret = <<fn, last.samples>>

C1_Witness ==
    /\ Forwarded
    /\ last.in_export /\ last.training
    /\ last.result.calls = <<"export_forward">>

\* C2: after set_export_mode(mode) on a model, the model and every node
\* below it carry in_export_mode = mode, whatever they carried before;
\* set_export_mode(true) then set_export_mode(false) leaves them all false.
C2_SetExportModePropagates ==
    last.op = "set_export_mode" =>
        /\ \A n \in sublayers(last.m) :
              n \in Carriers /\ in_export_mode[n] = last.mode
        /\ (last.after_true /\ ~last.mode => NoneExport(sublayers(last.m)))

C2_Witness ==
    /\ last.op = "set_export_mode"
    /\ last.after_true /\ ~last.mode
    /\ sublayers(last.m) = Nodes

\* C3: an export that completes sets the flag on the whole tree, then
\* traces, then serializes, then clears the flag; the flag is set on every
\* node while export is tracing and serializing, and clear on every node
\* once export has returned.
C3_ExportOrder ==
    /\ (stack # <<>> => (Top.kind = "export" => AllExport(sublayers(Top.m))))
    /\ (Returned =>
          /\ EventNames(last.log) =
                <<"set_export_mode", "to_static", "save", "set_export_mode">>
          /\ last.log[1].mode /\ ~last.log[4].mode
          /\ last.log[2].exporting /\ last.log[3].exporting
          /\ NoneExport(sublayers(last.m)))

C3_Witness ==
    /\ Returned
    /\ sublayers(last.m) = Nodes
    /\ stack = <<>>

\* C4: when the body of an exporting scope raises (the exporter failing in
\* export), the flag is clear on every node of the tree when the exception
\* reaches the caller.
C4_ResetOnException ==
    Raised => NoneExport(sublayers(last.m))

\* C5: with no exporting scope active the flag is clear everywhere; stated
\* for the states in which an export call has just ended, normally or by an
\* exception.
C5_NeverLeftSet ==
    (stack = <<>> /\ last.op = "export") =>
        \A n \in Carriers : ~in_export_mode[n]

\* C6 as claimed: whenever a forward pass starts on a model, the flag has
\* one value on the whole of the model's tree, whatever calls were made
\* before, on the root or on a nested sub-model, and whatever was attached.
C6_UniformAtForward ==
    Forwarded => Uniform(sublayers(last.m))

\* C6 amended: the flag has one value on the nodes of every model's tree
\* that carry it, as long as set_export_mode, exporting and export were only
\* called on roots and nothing was attached after the first such call.
C6_UniformWhenRooted ==
    usage # "mixed" => \A m \in Models : Uniform(sublayers(m))

C6_Witness ==
    /\ usage = "rooted"
    /\ Forwarded
    /\ sublayers(last.m) = Nodes
    /\ AllExport(Nodes)

\* C7: outputs is box3d, label, confidence in this order, box3d of shape
\* [-1, 7] without velocity and [-1, 9] with it, label and confidence of
\* shape [-1]; it is decided by box_with_velocity alone, which never
\* changes, in or out of export mode.
C7_Outputs ==
    /\ [](last.op = "outputs" =>
            /\ Len(last.result) = 3
            /\ [i \in 1..3 |-> last.result[i].name] = <<"box3d", "label", "confidence">>
            /\ last.result[1].shape =
                  IF box_with_velocity[last.m] THEN <<-1, 9>> ELSE <<-1, 7>>
            /\ last.result[2].shape = <<-1>>
            /\ last.result[3].shape = <<-1>>)
    /\ [][box_with_velocity' = box_with_velocity]_vars

C7_Witness ==
    /\ last.op = "outputs"
    /\ box_with_velocity[last.m]
    /\ in_export_mode[last.m]
    /\ last.result[1].shape = <<-1, 9>>

\* the lower-cased names of the concrete classes, written out
LowerCased(c) ==
    IF c.name = <<"S","M","O","K","E">> THEN <<"s","m","o","k","e">>
    ELSE <<"c","a","d","d","n">>
SavedPath == last.log[3].path

\* C8 as claimed: export serializes to save_dir/name when a name is given,
\* whatever the name, and to save_dir/<lower-cased class name> when none is.
C8_GivenNameAlwaysUsed ==
    Returned =>
        IF last.given.some
        THEN SavedPath = os_path_join(last.save_dir, last.given.val)
        ELSE SavedPath = os_path_join(last.save_dir, LowerCased(cls[last.m]))

\* C8 amended: a given name that is not the empty string is the one used;
\* with no name, or with the empty string, the lower-cased class name is.
C8_NonEmptyNameUsed ==
    Returned =>
        IF last.given.some /\ last.given.val # <<>>
        THEN SavedPath = os_path_join(last.save_dir, last.given.val)
        ELSE SavedPath = os_path_join(last.save_dir, LowerCased(cls[last.m]))

C8_Witness ==
    /\ Returned
    /\ last.given = Some(<<"m">>)
    /\ SavedPath = <<"o","u","t","/","m">>
    /\ cls[last.m].name = <<"C","a","D","D","N">>

\* C9: input_spec is a one-element list holding a mapping with one entry
\* per declared input, from its name to its descriptor; reading it changes
\* nothing; export hands exactly this value to the trace step and to the
\* serialize step.
C9_SameSpecToTraceAndSave ==
    /\ (last.op = "input_spec" =>
          /\ last.result = PyList(last.result.list_of)
          /\ Cardinality(DOMAIN last.result.list_of) = Len(cls[last.m].inputs)
          /\ \A i \in 1..Len(cls[last.m].inputs) :
                LET d == cls[last.m].inputs[i]
                IN  last.result.list_of[d.name] =
                       [shape |-> d.shape, dtype |-> d.dtype, name |-> d.name]
          /\ last.before = <<sub_layers, in_export_mode, box_with_velocity, cls, stack>>)
    /\ (Returned =>
          /\ last.log[2].input_spec = input_spec(cls[last.m].inputs)
          /\ last.log[3].input_spec = input_spec(cls[last.m].inputs))

\* C10 as claimed: after a scope nested in another has exited, the flag is
\* still set on every node covered by the scopes that remain active.
C10_ScopesNest ==
    (last.op \in {"export", "exporting"} /\ last.event \in {"returned", "exited"}) =>
        AllExport(Covered)

\* C10 amended: while the body of the innermost active scope has entered no
\* other scope, called no set_export_mode and attached nothing, the flag is
\* set on every node the scope covers, and a forward call on a covered model
\* runs export_forward.
C10_UndisturbedScope ==
    stack # <<>> =>
        (Top.clean =>
            /\ AllExport(sublayers(Top.m))
            /\ (Forwarded =>
                  (last.m \in sublayers(Top.m) =>
                      last.result.calls = <<"export_forward">>)))

C10_Witness ==
    /\ Len(stack) = 2
    /\ Top.kind = "exporting" /\ Top.clean
    /\ Forwarded /\ last.training
    /\ last.m \in sublayers(Top.m) /\ last.m # Top.m

====
